---- MODULE Spec2Model ----
(***************************************************************************)
(* A model of mistral-ocr: the API client (pkg/mistral/client.go), the     *)
(* three commands (cmd/process.go, cmd/convert.go, cmd/process_markdown.go)*)
(* and the Markdown converter.  Program strings are sequences of           *)
(* one-character strings, so that prefix, suffix, regular-expression and   *)
(* formatting code is computed character by character.                     *)
(***************************************************************************)
EXTENDS Integers, Sequences, FiniteSets, TLC

\* ------------------------------------------------------------------ bounds

\* Longest pages array of a payload.
MaxPages == 2
\* Longest images array handed to replaceImageReferences.
MaxImages == 2
\* Most segments a page content is assembled from in the replacement harness.
MaxSegs == 2

\* --------------------------------------------------------------- constants

MaxFileSize == 52 * 1024 * 1024
UploadMaxRetries == 3
UploadRetryDelay == 3
OCRMaxRetries == 5
OCRRetryDelay == 10

\* ----------------------------------------------------------------- strings

Lower == <<"a","b","c","d","e","f","g","h","i","j","k","l","m",
           "n","o","p","q","r","s","t","u","v","w","x","y","z">>
Upper == <<"A","B","C","D","E","F","G","H","I","J","K","L","M",
           "N","O","P","Q","R","S","T","U","V","W","X","Y","Z">>
Digits == <<"0","1","2","3","4","5","6","7","8","9">>

Range(s) == { s[i] : i \in DOMAIN s }

HasPrefix(s, p) == Len(s) >= Len(p) /\ SubSeq(s, 1, Len(p)) = p
HasSuffix(s, p) == Len(s) >= Len(p) /\ SubSeq(s, Len(s) - Len(p) + 1, Len(s)) = p

LowerChar(c) ==
    IF c \in Range(Upper)
    THEN Lower[CHOOSE i \in DOMAIN Upper : Upper[i] = c]
    ELSE c
ToLower(s) == [i \in DOMAIN s |-> LowerChar(s[i])]

\* fmt.Sprintf("%d", n) for n >= 0
RECURSIVE Itoa(_)
Itoa(n) == IF n < 10 THEN <<Digits[n + 1]>>
           ELSE Itoa(n \div 10) \o <<Digits[(n % 10) + 1]>>

\* ---------------------------------------------------- regexp (the part used)

RegexSpecial == {"\\", ".", "+", "*", "?", "(", ")", "|", "[", "]", "{", "}", "^", "$"}

RECURSIVE QuoteMeta(_)
QuoteMeta(s) ==
    IF s = <<>> THEN <<>>
    ELSE (IF Head(s) \in RegexSpecial THEN <<"\\", Head(s)>> ELSE <<Head(s)>>)
         \o QuoteMeta(Tail(s))

\* A compiled pattern: one matcher per input character.  An escaped character
\* matches itself, a bare "." any character but a newline.
RECURSIVE MustCompile(_)
MustCompile(p) ==
    IF p = <<>> THEN <<>>
    ELSE IF Head(p) = "\\" /\ Len(p) >= 2
         THEN <<[any |-> FALSE, ch |-> p[2]]>> \o MustCompile(SubSeq(p, 3, Len(p)))
    ELSE IF Head(p) = "."
         THEN <<[any |-> TRUE, ch |-> "."]>> \o MustCompile(Tail(p))
    ELSE <<[any |-> FALSE, ch |-> Head(p)]>> \o MustCompile(Tail(p))

MatchAt(re, s, i) ==
    /\ i + Len(re) - 1 <= Len(s)
    /\ \A k \in DOMAIN re :
          IF re[k].any THEN s[i + k - 1] # "\n" ELSE s[i + k - 1] = re[k].ch

IsNameChar(c) == c \in Range(Lower) \cup Range(Upper) \cup Range(Digits) \cup {"_"}

RECURSIVE NameLen(_, _)
NameLen(s, i) == IF i <= Len(s) /\ IsNameChar(s[i]) THEN 1 + NameLen(s, i + 1) ELSE 0

\* The text of the submatch a template variable names.  The patterns of this
\* program have no capture groups: only $0, the whole match, is non-empty.
GroupText(name, m) == IF name = <<"0">> THEN m ELSE <<>>

\* regexp.Expand: $name and ${name} are replaced by the submatch, $$ is a
\* dollar sign, a malformed reference keeps the dollar sign.
RECURSIVE Expand(_, _)
Expand(t, m) ==
    IF t = <<>> THEN <<>>
    ELSE IF Head(t) # "$" THEN <<Head(t)>> \o Expand(Tail(t), m)
    ELSE LET r == Tail(t) IN
         IF r # <<>> /\ Head(r) = "$" THEN <<"$">> \o Expand(Tail(r), m)
         ELSE LET brace == r # <<>> /\ Head(r) = "{"
                  body == IF brace THEN Tail(r) ELSE r
                  n == NameLen(body, 1)
                  closed == n < Len(body) /\ body[n + 1] = "}"
                  ok == n > 0 /\ (brace => closed)
                  name == SubSeq(body, 1, n)
                  rest == SubSeq(body, n + (IF brace THEN 2 ELSE 1), Len(body))
              IN IF ~ok THEN <<"$">> \o Expand(r, m)
                 ELSE GroupText(name, m) \o Expand(rest, m)

\* Every leftmost non-overlapping match replaced by the expanded template.
RECURSIVE ReplaceFrom(_, _, _, _)
ReplaceFrom(s, re, tmpl, i) ==
    IF i > Len(s) THEN <<>>
    ELSE IF MatchAt(re, s, i)
         THEN Expand(tmpl, SubSeq(s, i, i + Len(re) - 1))
              \o ReplaceFrom(s, re, tmpl, i + Len(re))
    ELSE <<s[i]>> \o ReplaceFrom(s, re, tmpl, i + 1)

ReplaceAllString(s, re, tmpl) == ReplaceFrom(s, re, tmpl, 1)

\* --------------------------------------------------- replaceImageReferences

DataPrefix == <<"d","a","t","a",":">>
JpegPrefix == <<"d","a","t","a",":","i","m","a","g","e","/","j","p","e","g",
                ";","b","a","s","e","6","4",",">>

ImageData(b64) == IF HasPrefix(b64, DataPrefix) THEN b64 ELSE JpegPrefix \o b64

\* imageMap: the images with a payload, a later image of the same ID winning.
RECURSIVE BuildImageMap(_, _)
BuildImageMap(images, m) ==
    IF images = <<>> THEN m
    ELSE LET img == Head(images)
             m2 == IF img.ImageBase64 # <<>>
                   THEN [k \in DOMAIN m \cup {img.ID} |->
                            IF k = img.ID THEN ImageData(img.ImageBase64) ELSE m[k]]
                   ELSE m
         IN BuildImageMap(Tail(images), m2)

ImageMap(images) == BuildImageMap(images, [k \in {} |-> <<>>])

\* The orders in which a range over the map may visit its keys.
MapOrders(m) ==
    { o \in [1 .. Cardinality(DOMAIN m) -> DOMAIN m] :
        \A i, j \in DOMAIN o : i # j => o[i] # o[j] }

ImagePattern(id) ==
    <<"!", "\\", "[">> \o QuoteMeta(id) \o <<"\\", "]", "\\", "(">>
    \o QuoteMeta(id) \o <<"\\", ")">>

ImageReplacement(id, data) == <<"!", "[">> \o id \o <<"]", "(">> \o data \o <<")">>

RECURSIVE ReplaceEach(_, _, _)
ReplaceEach(content, m, order) ==
    IF order = <<>> THEN content
    ELSE LET id == Head(order)
         IN ReplaceEach(
               ReplaceAllString(content, MustCompile(ImagePattern(id)),
                                ImageReplacement(id, m[id])),
               m, Tail(order))

\* replaceImageReferences with the flag and the map's iteration order passed in.
replaceImageReferences(flag, content, images, order) ==
    IF ~flag \/ Len(images) = 0 THEN content
    ELSE ReplaceEach(content, ImageMap(images), order)

\* The contents replaceImageReferences may return, over the map's orders.
ReplacedContents(flag, content, images) ==
    { replaceImageReferences(flag, content, images, o) : o \in MapOrders(ImageMap(images)) }

\* -------------------------------------------------------------------- data

S_http == <<"h", "t", "t", "p", ":", "/", "/">>
S_https == <<"h", "t", "t", "p", "s", ":", "/", "/">>
S_jpg == <<".", "j", "p", "g">>
S_jpeg == <<".", "j", "p", "e", "g">>
S_png == <<".", "p", "n", "g">>
S_webp == <<".", "w", "e", "b", "p">>
S_gif == <<".", "g", "i", "f">>
S_document_url == <<"d", "o", "c", "u", "m", "e", "n", "t", "_", "u", "r", "l">>
S_image_url == <<"i", "m", "a", "g", "e", "_", "u", "r", "l">>
S_md == <<".", "m", "d">>
S_document_md == <<"d", "o", "c", "u", "m", "e", "n", "t", ".", "m", "d">>
S_markdown_output == <<"m", "a", "r", "k", "d", "o", "w", "n", "_", "o", "u", "t", "p", "u", "t">>
S_Document == <<"D", "o", "c", "u", "m", "e", "n", "t">>
TmpName == <<"/", "t", "m", "p", "/", "m", "i", "s", "t", "r", "a", "l", "-", "o", "c", "r", "-", "1", ".", "j", "s", "o", "n">>

\* The arguments of process and markdown: two URLs and a local path.
URLDocArg == <<"h", "t", "t", "p", ":", "/", "/", "h", "/", "a", ".", "p", "d", "f">>
URLImgArg == <<"h", "t", "t", "p", "s", ":", "/", "/", "h", "/", "b", ".", "J", "P", "G">>
LocalArg == <<"d", "/", "s", ".", "p", "d", "f">>
NetArgs == {URLDocArg, URLImgArg, LocalArg}
\* The argument of convert, and the --output-file / --json-file of process
\* and markdown.
JsonArg == <<"o", ".", "j", "s", "o", "n">>
OutFileArg == <<"d", "/", "r", ".", "m", "d">>

FlagKey == <<"k", "f">>
EnvKey == <<"k", "e">>
FileIDs == {<<"f", "1">>}
SignedURLs == {<<"h", "t", "t", "p", "s", ":", "/", "/", "s", "/", "u">>}

\* File sizes around the ceiling.
Sizes == {1, MaxFileSize - 1, MaxFileSize, MaxFileSize + 1}

Statuses == {400, 404, 429, 500, 503}

\* ---------------------------------------------------------- JSON documents

NoMeta == [Title |-> <<>>, Author |-> <<>>, CreationDate |-> <<>>, PageCount |-> 0]

\* A response body or a file's content.  kind: "absent" (no file), "empty"
\* (zero bytes), "invalid" (not JSON), "array" (JSON, but not an object) or
\* "object"; id, url, pages and metadata are the members of the object;
\* indented tells json.Indent's layout from the server's.
Body(kind, id, url, pages, meta) ==
    [kind |-> kind, id |-> id, url |-> url, pages |-> pages, meta |-> meta,
     indented |-> FALSE]

AbsentBody == Body("absent", <<>>, <<>>, <<>>, NoMeta)
EmptyBody == Body("empty", <<>>, <<>>, <<>>, NoMeta)
InvalidBody == Body("invalid", <<>>, <<>>, <<>>, NoMeta)
ArrayBody == Body("array", <<>>, <<>>, <<>>, NoMeta)
ObjectBody == Body("object", <<>>, <<>>, <<>>, NoMeta)

Image(id, b64) == [ID |-> id, ImageBase64 |-> b64]
Page(index, markdown, images) == [Index |-> index, Markdown |-> markdown, Images |-> images]

Page_a == Page(0, <<"a">>, <<>>)
Page_b == Page(1, <<"b">>, <<>>)
Page_img == Page(1, <<"!", "[", "i", "]", "(", "i", ")">>, <<Image(<<"i">>, <<"Q">>)>>)
PagePool == {Page_a, Page_b, Page_img}

MetaPool ==
    { NoMeta,
      [Title |-> <<"T">>, Author |-> <<"A">>, CreationDate |-> <<>>, PageCount |-> 2],
      [Title |-> <<>>, Author |-> <<>>, CreationDate |-> <<"D">>, PageCount |-> 0] }

PageSeqs == UNION { [1 .. n -> PagePool] : n \in 0 .. MaxPages }

Payloads == { Body("object", <<>>, <<>>, ps, m) : ps \in PageSeqs, m \in MetaPool }

\* The payloads the OCR endpoint answers with: no page, pages out of index
\* order, a page with an image.
Meta_T == [Title |-> <<"T">>, Author |-> <<"A">>, CreationDate |-> <<>>, PageCount |-> 2]
NetPayloads ==
    { Body("object", <<>>, <<>>, <<>>, NoMeta),
      Body("object", <<>>, <<>>, <<Page_b, Page_a>>, Meta_T),
      Body("object", <<>>, <<>>, <<Page_img>>, NoMeta) }

\* len(body), as far as the code looks at it
BodyIsEmpty(b) == b.kind = "empty"
AnyBodyValid(b) == TRUE
\* json.Valid
JSONValid(b) == b.kind \in {"array", "object"}
\* json.Unmarshal into a struct returns no error
UnmarshalOK(b) == b.kind = "object"
\* json.Indent
Indent(b) == [b EXCEPT !.indented = TRUE]

\* ------------------------------------------------------ requests, outcomes

\* What an attempt's request ends in: a transport error, or a response.
Outcome(err, status, body) == [err |-> err, status |-> status, body |-> body]
TransportError == Outcome(TRUE, 0, EmptyBody)

UploadBodies ==
    {EmptyBody, InvalidBody, ArrayBody, ObjectBody}
    \cup { Body("object", id, <<>>, <<>>, NoMeta) : id \in FileIDs }
URLBodies ==
    {EmptyBody, InvalidBody, ArrayBody, ObjectBody}
    \cup { Body("object", <<>>, u, <<>>, NoMeta) : u \in SignedURLs }
OCRBodies == {EmptyBody, InvalidBody, ArrayBody} \cup NetPayloads

Outcomes(bodies) ==
    {TransportError}
    \cup { Outcome(FALSE, s, EmptyBody) : s \in Statuses }
    \cup { Outcome(FALSE, 200, b) : b \in bodies }

\* An error value: what it reports, the status it carries, and the attempt
\* that produced it.
Err(kind, status, att) == [kind |-> kind, status |-> status, attempt |-> att]
NoErr == Err("nil", 0, 0)

\* What a call returned: ok, or an error, wrapped when the retries ran out.
Ret(state, wrapped, err) == [state |-> state, wrapped |-> wrapped, err |-> err]
NoRet == Ret("none", FALSE, NoErr)

\* ------------------------------------------------------------- API client

FileTooLargeOrEqual(size) == size >= MaxFileSize
FileTooLarge(size) == size > MaxFileSize

RetryOnlyServerErrors(status) == status >= 500
RetryAllErrors(status) == status >= 400
ShouldRetryStatus(status) == status >= 500 \/ status = 429

\* One iteration of UploadFile's loop after the request: what the loop does
\* next ("retry", "fail" or "ok"), lastErr, the wait and the file ID.
UploadIteration(out, att) ==
    IF out.err
    THEN [next |-> "retry", err |-> Err("request", 0, att), delay |-> UploadRetryDelay, val |-> <<>>]
    ELSE IF out.status # 200
    THEN IF ShouldRetryStatus(out.status)
         THEN [next |-> "retry", err |-> Err("status", out.status, att), delay |-> UploadRetryDelay, val |-> <<>>]
         ELSE [next |-> "fail", err |-> Err("status", out.status, att), delay |-> 0, val |-> <<>>]
    ELSE IF BodyIsEmpty(out.body)
    THEN [next |-> "retry", err |-> Err("empty", 0, att), delay |-> UploadRetryDelay, val |-> <<>>]
    ELSE IF ~UnmarshalOK(out.body)
    THEN [next |-> "retry", err |-> Err("parse", 0, att), delay |-> UploadRetryDelay, val |-> <<>>]
    ELSE IF out.body.id = <<>>
    THEN [next |-> "retry", err |-> Err("noid", 0, att), delay |-> UploadRetryDelay, val |-> <<>>]
    ELSE [next |-> "ok", err |-> NoErr, delay |-> 0, val |-> out.body.id]

\* GetFileURL after its one request.
GetFileURLResult(out) ==
    IF out.err THEN [next |-> "fail", err |-> Err("request", 0, 1), val |-> <<>>]
    ELSE IF out.status # 200 THEN [next |-> "fail", err |-> Err("status", out.status, 1), val |-> <<>>]
    ELSE IF ~UnmarshalOK(out.body) THEN [next |-> "fail", err |-> Err("parse", 0, 1), val |-> <<>>]
    ELSE IF out.body.url = <<>> THEN [next |-> "fail", err |-> Err("nourl", 0, 1), val |-> <<>>]
    ELSE [next |-> "ok", err |-> NoErr, val |-> out.body.url]

\* The error Post returned: lastErr right after the request.
PostErr(out, att) == IF out.err THEN Err("request", 0, att) ELSE NoErr

OCREmptyErrUnset(att) == NoErr
OCREmptyErr(att) == Err("empty", 0, att)

OCREmptyDelayFixed(att) == OCRRetryDelay
OCREmptyDelay(att) == OCRRetryDelay * att

\* One iteration of ProcessOCR's loop after the request.
OCRIteration(out, att) ==
    IF PostErr(out, att) # NoErr
    THEN [next |-> "retry", err |-> PostErr(out, att), delay |-> OCRRetryDelay, val |-> EmptyBody]
    ELSE IF out.status # 200
    THEN IF ShouldRetryStatus(out.status)
         THEN [next |-> "retry", err |-> Err("status", out.status, att), delay |-> OCRRetryDelay, val |-> EmptyBody]
         ELSE [next |-> "fail", err |-> Err("status", out.status, att), delay |-> 0, val |-> EmptyBody]
    ELSE IF BodyIsEmpty(out.body)
    THEN [next |-> "retry", err |-> OCREmptyErr(att), delay |-> OCREmptyDelay(att), val |-> EmptyBody]
    ELSE IF ~JSONValid(out.body)
    THEN [next |-> "retry", err |-> Err("invalid", 0, att), delay |-> OCRRetryDelay, val |-> EmptyBody]
    ELSE [next |-> "ok", err |-> NoErr, delay |-> 0, val |-> out.body]

\* ProcessOCR's switch on the document type.
DocTypeSupported(docType) == docType \in {S_document_url, S_image_url}

\* The loop's step: the call goes on with the next attempt, or returns.
\* maxRetries is the loop's bound.
LoopReturnOneMore(it, att, maxRetries) ==
    IF it.next = "ok" THEN Ret("ok", FALSE, NoErr)
    ELSE IF it.next = "fail" THEN Ret("error", FALSE, it.err)
    ELSE IF att <= maxRetries THEN NoRet
    ELSE Ret("error", TRUE, it.err)

LoopReturn(it, att, maxRetries) ==
    IF it.next = "ok" THEN Ret("ok", FALSE, NoErr)
    ELSE IF it.next = "fail" THEN Ret("error", FALSE, it.err)
    ELSE IF att + 1 <= maxRetries THEN NoRet
    ELSE Ret("error", TRUE, it.err)

\* ------------------------------------------------------------------- state

VARIABLES
    \* the invocation: command, argument, environment, flags
    cmd, arg, fileExists, fileSize, apiKeyFlag, envKey,
    jsonOutputFile, markdownDir, markdownFile,
    includeImages, includePageBreaks, titleFromFilename, singleFile,
    includeImageBase64,
    \* control
    pc, exitCode, failure,
    \* the client and the call in progress
    apiKey, attempt, lastErr, lastOutcome, slept, lastDelay, retErr,
    \* what went over the network
    reqs, authKeys, ocrReq,
    \* results of the calls
    fileID, fileURL, respData,
    \* files
    jsonOutputPath, tmpExists, jsonOnDisk, stdout,
    \* the converter
    ocrResponse, pageIdx, combined, mdFiles, nWrites,
    \* replaceImageReferences called on its own
    rContent, rImages, rOut

invocationVars == <<cmd, arg, fileExists, fileSize, apiKeyFlag, envKey,
                    jsonOutputFile, markdownDir, markdownFile,
                    includeImages, includePageBreaks, titleFromFilename, singleFile,
                    includeImageBase64>>
controlVars == <<pc, exitCode, failure>>
callVars == <<apiKey, attempt, lastErr, lastOutcome, slept, lastDelay, retErr>>
netVars == <<reqs, authKeys, ocrReq>>
resultVars == <<fileID, fileURL, respData>>
fileVars == <<jsonOutputPath, tmpExists, jsonOnDisk, stdout>>
convVars == <<ocrResponse, pageIdx, combined, mdFiles, nWrites>>
replaceVars == <<rContent, rImages, rOut>>

vars == <<invocationVars, controlVars, callVars, netVars, resultVars, fileVars,
          convVars, replaceVars>>

\* ------------------------------------------------------------------- paths

RECURSIVE LastIndex(_, _, _)
LastIndex(s, c, i) == IF i = 0 THEN 0 ELSE IF s[i] = c THEN i ELSE LastIndex(s, c, i - 1)

RECURSIVE Clean(_)
Clean(p) ==
    IF Len(p) < 2 THEN p
    ELSE IF p[1] = "/" /\ p[2] = "/" THEN Clean(Tail(p))
    ELSE <<Head(p)>> \o Clean(Tail(p))

Base(p) == IF p = <<>> THEN <<".">> ELSE SubSeq(p, LastIndex(p, "/", Len(p)) + 1, Len(p))
Dir(p) ==
    LET i == LastIndex(p, "/", Len(p))
    IN IF i = 0 THEN <<".">> ELSE IF i = 1 THEN <<"/">> ELSE Clean(SubSeq(p, 1, i - 1))
Ext(p) ==
    LET b == Base(p)
        i == LastIndex(b, ".", Len(b))
    IN IF i = 0 THEN <<>> ELSE SubSeq(b, i, Len(b))
TrimSuffix(s, suf) == IF HasSuffix(s, suf) THEN SubSeq(s, 1, Len(s) - Len(suf)) ELSE s
Join(a, b) ==
    IF a = <<>> THEN Clean(b) ELSE IF b = <<>> THEN Clean(a) ELSE Clean(a \o <<"/">> \o b)

\* ---------------------------------------------------------------- commands

IsURL(a) == HasPrefix(a, S_http) \/ HasPrefix(a, S_https)

DocType(a) ==
    LET l == ToLower(a)
    IN IF \/ HasSuffix(l, S_jpg) \/ HasSuffix(l, S_jpeg) \/ HasSuffix(l, S_png)
          \/ HasSuffix(l, S_webp) \/ HasSuffix(l, S_gif)
       THEN S_image_url ELSE S_document_url

getAPIKeyEnvFirst(flag, env) == IF env # <<>> THEN env ELSE flag
getAPIKey(flag, env) == IF flag # <<>> THEN flag ELSE env

\* NewClient's key; the empty key stands for the nil client.
NewClient(key, env) == IF key = <<>> THEN env ELSE key

\* Where control goes: on to a step, or out of the process with a code.
Go(p) == [pc |-> p, code |-> -1]
Exit(c) == [pc |-> "exit", code |-> c]

AfterStat(exists, c) ==
    IF ~exists THEN Exit(1) ELSE Go(IF c = "process" THEN "key" ELSE "upload")

AfterKey(key, c, isURL) ==
    IF key = <<>> THEN Exit(1)
    ELSE Go(IF isURL THEN "ocr" ELSE IF c = "process" THEN "upload" ELSE "stat")

AfterUploadNoCheck(ret) == Go("geturl")
AfterUpload(ret) == IF ret.state = "error" THEN Exit(1) ELSE Go("geturl")

AfterGetFileURL(ret) == IF ret.state = "error" THEN Exit(1) ELSE Go("ocr")

AfterOCRNoCheck(ret, c) == Go(IF c = "process" THEN "output" ELSE "savejson")
AfterOCR(ret, c) ==
    IF ret.state = "error" THEN Exit(1)
    ELSE Go(IF c = "process" THEN "output" ELSE "savejson")

AfterSaveJSON(data, writeOK) ==
    IF BodyIsEmpty(data) THEN Exit(1)
    ELSE IF ~writeOK THEN Exit(1)
    ELSE Go("conv")

AfterHandleOutput(data, toFile, mkdirOK, writeOK) ==
    IF ~JSONValid(data) THEN Exit(1)
    ELSE IF toFile /\ ~mkdirOK THEN Exit(1)
    ELSE IF toFile /\ ~writeOK THEN Exit(1)
    ELSE Exit(0)

NoOutcome == [op |-> "none", attempt |-> 0, out |-> TransportError]
NoReq == [docType |-> <<>>, source |-> <<>>, images |-> FALSE]
NoResponse == [Pages |-> <<>>, Metadata |-> NoMeta]
NoFiles == [p \in {} |-> <<>>]

Control(c) == pc' = c.pc /\ exitCode' = c.code

\* The steps of this run that failed so far, by name.
Failed(step, bad) == failure' = IF bad /\ failure = "none" THEN step ELSE failure

\* ------------------------------------------------------------------- Init

InitRest ==
    /\ exitCode = -1 /\ failure = "none"
    /\ apiKey = <<>> /\ attempt = 0 /\ lastErr = NoErr /\ lastOutcome = NoOutcome
    /\ slept = 0 /\ lastDelay = 0 /\ retErr = NoRet
    /\ reqs = [upload |-> 0, geturl |-> 0, ocr |-> 0] /\ authKeys = {} /\ ocrReq = NoReq
    /\ fileID = <<>> /\ fileURL = <<>> /\ respData = AbsentBody
    /\ jsonOutputPath = <<>> /\ tmpExists = FALSE /\ stdout = AbsentBody
    /\ ocrResponse = NoResponse /\ pageIdx = 0 /\ combined = <<>>
    /\ mdFiles = NoFiles /\ nWrites = 0
    /\ rContent = <<>> /\ rImages = <<>> /\ rOut = <<>>

InitNetInput ==
    /\ arg \in NetArgs
    /\ \/ IsURL(arg) /\ fileExists = FALSE /\ fileSize = 0
       \/ ~IsURL(arg) /\ fileExists = FALSE /\ fileSize = 0
       \/ ~IsURL(arg) /\ fileExists = TRUE /\ fileSize \in Sizes
    /\ apiKeyFlag \in {<<>>, FlagKey}
    /\ envKey \in {<<>>, EnvKey}
    /\ jsonOnDisk = AbsentBody

\* mistral-ocr process <arg> [--output-file] [--include-images]
InitProcess ==
    /\ cmd = "process" /\ pc = "run"
    /\ InitNetInput
    /\ jsonOutputFile \in {<<>>, JsonArg}
    /\ includeImageBase64 \in BOOLEAN
    /\ markdownDir = S_markdown_output /\ markdownFile = <<>>
    /\ includeImages = FALSE /\ includePageBreaks = TRUE
    /\ titleFromFilename = TRUE /\ singleFile = FALSE
    /\ InitRest

\* mistral-ocr markdown <arg> [--json-file] [--images] [--single-file] [--output-file]
InitMarkdown ==
    /\ cmd = "markdown" /\ pc = "prerun"
    /\ InitNetInput
    /\ jsonOutputFile \in {<<>>, JsonArg}
    /\ includeImageBase64 = FALSE
    /\ markdownDir = S_markdown_output /\ markdownFile \in {<<>>, OutFileArg}
    /\ includeImages \in BOOLEAN /\ includePageBreaks = TRUE
    /\ titleFromFilename = TRUE /\ singleFile \in BOOLEAN
    /\ InitRest

\* mistral-ocr convert <json_file> with every conversion flag
InitConvert ==
    /\ cmd = "convert" /\ pc = "prerun"
    /\ arg = JsonArg /\ fileExists = FALSE /\ fileSize = 0
    /\ apiKeyFlag = <<>> /\ envKey = <<>>
    /\ jsonOnDisk \in {AbsentBody, EmptyBody, InvalidBody, ArrayBody} \cup Payloads
    /\ jsonOutputFile = <<>>
    /\ includeImageBase64 = FALSE
    /\ markdownDir = S_markdown_output /\ markdownFile \in {<<>>, OutFileArg}
    /\ includeImages \in BOOLEAN /\ includePageBreaks \in BOOLEAN
    /\ titleFromFilename \in BOOLEAN /\ singleFile \in BOOLEAN
    /\ InitRest

Init == InitProcess \/ InitMarkdown \/ InitConvert

\* ------------------------------------------------ steps before the network

PreRunKeepsBase64(images, base64) == base64
PreRunImageBase64(images, base64) == IF images THEN TRUE ELSE base64
PreRunSingleFile(file, single) == IF file # <<>> THEN TRUE ELSE single

\* processMarkdownCmd.PreRun
PreRunMarkdown ==
    /\ pc = "prerun" /\ cmd = "markdown"
    /\ includeImageBase64' = PreRunImageBase64(includeImages, includeImageBase64)
    /\ singleFile' = PreRunSingleFile(markdownFile, singleFile)
    /\ pc' = "tmp"
    /\ UNCHANGED <<cmd, arg, fileExists, fileSize, apiKeyFlag, envKey, jsonOutputFile,
                   markdownDir, markdownFile, includeImages, includePageBreaks,
                   titleFromFilename, exitCode, failure>>
    /\ UNCHANGED <<callVars, netVars, resultVars, fileVars, convVars, replaceVars>>

\* convertCmd.PreRun
PreRunConvert ==
    /\ pc = "prerun" /\ cmd = "convert"
    /\ singleFile' = PreRunSingleFile(markdownFile, singleFile)
    /\ pc' = "conv"
    /\ UNCHANGED <<cmd, arg, fileExists, fileSize, apiKeyFlag, envKey, jsonOutputFile,
                   markdownDir, markdownFile, includeImages, includePageBreaks,
                   titleFromFilename, includeImageBase64, exitCode, failure>>
    /\ UNCHANGED <<callVars, netVars, resultVars, fileVars, convVars, replaceVars>>

\* processCmd.Run: a URL or a local file
RunProcess ==
    /\ pc = "run" /\ cmd = "process"
    /\ pc' = IF IsURL(arg) THEN "key" ELSE "stat"
    /\ UNCHANGED <<invocationVars, exitCode, failure, callVars, netVars, resultVars,
                   fileVars, convVars, replaceVars>>

\* processAndConvertToMarkdown: the JSON goes to --json-file or a temporary file
CreateTemp ==
    /\ pc = "tmp"
    /\ IF jsonOutputFile = <<>>
       THEN \E ok \in BOOLEAN :
              /\ Control(IF ok THEN Go("key") ELSE Exit(1))
              /\ Failed("tmp", ~ok)
              /\ tmpExists' = ok
              /\ jsonOnDisk' = IF ok THEN EmptyBody ELSE jsonOnDisk
              /\ jsonOutputPath' = IF ok THEN TmpName ELSE jsonOutputPath
       ELSE /\ Control(Go("key"))
            /\ jsonOutputPath' = jsonOutputFile
            /\ UNCHANGED <<failure, tmpExists, jsonOnDisk>>
    /\ UNCHANGED <<invocationVars, callVars, netVars, resultVars, stdout, convVars,
                   replaceVars>>

\* os.Stat on the local file
Stat ==
    /\ pc = "stat"
    /\ Control(AfterStat(fileExists, cmd))
    /\ Failed("stat", ~fileExists)
    /\ UNCHANGED <<invocationVars, callVars, netVars, resultVars, fileVars, convVars,
                   replaceVars>>

\* mistral.NewClient(getAPIKey())
GetKey ==
    /\ pc = "key"
    /\ LET key == NewClient(getAPIKey(apiKeyFlag, envKey), envKey)
       IN /\ apiKey' = key
          /\ Control(AfterKey(key, cmd, IsURL(arg)))
          /\ Failed("apikey", key = <<>>)
    /\ UNCHANGED <<invocationVars, attempt, lastErr, lastOutcome, slept, lastDelay, retErr,
                   netVars, resultVars, fileVars, convVars, replaceVars>>

\* ------------------------------------------------------------- UploadFile

\* The error a loop that ran out of attempts returns wraps lastErr.
Returned(it, att, maxRetries, last) ==
    LET r == LoopReturn(it, att, maxRetries)
    IN IF r.wrapped THEN Ret("error", TRUE, last) ELSE r

\* UploadFile up to its loop: the size check
UploadBegin ==
    /\ pc = "upload" /\ attempt = 0
    /\ LET ret == IF ~fileExists THEN Ret("error", FALSE, Err("stat", 0, 0))
                  ELSE IF FileTooLarge(fileSize) THEN Ret("error", FALSE, Err("toolarge", 0, 0))
                  ELSE NoRet
       IN /\ retErr' = ret
          /\ IF ret = NoRet
             THEN attempt' = 1 /\ UNCHANGED <<pc, exitCode, failure>>
             ELSE attempt' = 0 /\ Control(AfterUpload(ret)) /\ Failed("upload", TRUE)
    /\ lastErr' = NoErr /\ lastOutcome' = NoOutcome /\ slept' = 0 /\ lastDelay' = 0
    /\ UNCHANGED <<invocationVars, apiKey, netVars, resultVars, fileVars, convVars,
                   replaceVars>>

\* One iteration of UploadFile's loop: the request, its outcome, the wait
UploadAttempt ==
    /\ pc = "upload" /\ attempt >= 1
    /\ \E out \in Outcomes(UploadBodies) :
         LET it == UploadIteration(out, attempt)
             last == IF it.next = "ok" THEN lastErr ELSE it.err
             ret == Returned(it, attempt, UploadMaxRetries, last)
         IN /\ reqs' = [reqs EXCEPT !.upload = @ + 1]
            /\ authKeys' = authKeys \cup {apiKey}
            /\ lastOutcome' = [op |-> "upload", attempt |-> attempt, out |-> out]
            /\ lastErr' = last
            /\ slept' = slept + it.delay
            /\ lastDelay' = it.delay
            /\ retErr' = ret
            /\ fileID' = it.val
            /\ IF ret = NoRet
               THEN attempt' = attempt + 1 /\ UNCHANGED <<pc, exitCode, failure>>
               ELSE /\ attempt' = 0
                    /\ Control(AfterUpload(ret))
                    /\ Failed("upload", ret.state = "error")
    /\ UNCHANGED <<invocationVars, apiKey, ocrReq, fileURL, respData, fileVars, convVars,
                   replaceVars>>

\* ------------------------------------------------------------- GetFileURL

GetFileURL ==
    /\ pc = "geturl"
    /\ \E out \in Outcomes(URLBodies) :
         LET res == GetFileURLResult(out)
             ret == IF res.next = "ok" THEN Ret("ok", FALSE, NoErr)
                    ELSE Ret("error", FALSE, res.err)
         IN /\ reqs' = [reqs EXCEPT !.geturl = @ + 1]
            /\ authKeys' = authKeys \cup {apiKey}
            /\ lastOutcome' = [op |-> "geturl", attempt |-> 1, out |-> out]
            /\ retErr' = ret
            /\ fileURL' = res.val
            /\ Control(AfterGetFileURL(ret))
            /\ Failed("geturl", ret.state = "error")
    /\ attempt' = 0 /\ lastErr' = NoErr /\ slept' = 0 /\ lastDelay' = 0
    /\ UNCHANGED <<invocationVars, apiKey, ocrReq, fileID, respData, fileVars, convVars,
                   replaceVars>>

\* ------------------------------------------------------------- ProcessOCR

\* ProcessOCR up to its loop: the request body
OCRBegin ==
    /\ pc = "ocr" /\ attempt = 0
    /\ LET docType == DocType(arg)
           docSource == IF IsURL(arg) THEN arg ELSE fileURL
           ret == IF DocTypeSupported(docType) THEN NoRet
                  ELSE Ret("error", FALSE, Err("doctype", 0, 0))
       IN /\ retErr' = ret
          /\ IF ret = NoRet
             THEN /\ attempt' = 1
                  /\ ocrReq' = [docType |-> docType, source |-> docSource,
                                images |-> includeImageBase64]
                  /\ UNCHANGED <<pc, exitCode, failure>>
             ELSE /\ attempt' = 0
                  /\ Control(AfterOCR(ret, cmd))
                  /\ Failed("ocr", TRUE)
                  /\ UNCHANGED ocrReq
    /\ lastErr' = NoErr /\ lastOutcome' = NoOutcome /\ slept' = 0 /\ lastDelay' = 0
    /\ UNCHANGED <<invocationVars, apiKey, reqs, authKeys, resultVars, fileVars, convVars,
                   replaceVars>>

\* One iteration of ProcessOCR's loop
OCRAttempt ==
    /\ pc = "ocr" /\ attempt >= 1
    /\ \E out \in Outcomes(OCRBodies) :
         LET it == OCRIteration(out, attempt)
             ret == Returned(it, attempt, OCRMaxRetries, it.err)
         IN /\ reqs' = [reqs EXCEPT !.ocr = @ + 1]
            /\ authKeys' = authKeys \cup {apiKey}
            /\ lastOutcome' = [op |-> "ocr", attempt |-> attempt, out |-> out]
            /\ lastErr' = it.err
            /\ slept' = slept + it.delay
            /\ lastDelay' = it.delay
            /\ retErr' = ret
            /\ respData' = IF it.next = "ok" THEN it.val ELSE respData
            /\ IF ret = NoRet
               THEN attempt' = attempt + 1 /\ UNCHANGED <<pc, exitCode, failure>>
               ELSE /\ attempt' = 0
                    /\ Control(AfterOCR(ret, cmd))
                    /\ Failed("ocr", ret.state = "error")
    /\ UNCHANGED <<invocationVars, apiKey, ocrReq, fileID, fileURL, fileVars, convVars,
                   replaceVars>>

\* --------------------------------------------------- the JSON is written

ClearCall ==
    /\ attempt' = 0 /\ lastErr' = NoErr /\ lastOutcome' = NoOutcome
    /\ slept' = 0 /\ lastDelay' = 0 /\ retErr' = NoRet

\* processAndConvertToMarkdown: the response goes to the JSON file
SaveJSON ==
    /\ pc = "savejson"
    /\ \E writeOK \in BOOLEAN :
         /\ Control(AfterSaveJSON(respData, writeOK))
         /\ Failed("savejson", BodyIsEmpty(respData) \/ ~writeOK)
         /\ jsonOnDisk' = IF ~BodyIsEmpty(respData) /\ writeOK THEN respData ELSE jsonOnDisk
    /\ ClearCall
    /\ UNCHANGED <<invocationVars, apiKey, netVars, resultVars, jsonOutputPath, tmpExists,
                   stdout, convVars, replaceVars>>

\* handleOutput: the indented response goes to --output-file or to stdout
HandleOutput ==
    /\ pc = "output"
    /\ \E mkdirOK, writeOK \in BOOLEAN :
         LET toFile == jsonOutputFile # <<>>
             dirOK == Dir(jsonOutputFile) = <<".">> \/ mkdirOK
             c == AfterHandleOutput(respData, toFile, dirOK, writeOK)
         IN /\ Control(c)
            /\ Failed("output", ~JSONValid(respData) \/ (toFile /\ (~dirOK \/ ~writeOK)))
            /\ jsonOnDisk' = IF c.code = 0 /\ toFile THEN Indent(respData) ELSE jsonOnDisk
            /\ stdout' = IF c.code = 0 /\ ~toFile THEN Indent(respData) ELSE stdout
    /\ ClearCall
    /\ UNCHANGED <<invocationVars, apiKey, netVars, resultVars, jsonOutputPath, tmpExists,
                   convVars, replaceVars>>

\* ---------------------------------------------------- convertJSONToMarkdown

NL2 == <<"\n", "\n">>
PageBreak == <<"\n", "\n", "-", "-", "-", "\n", "\n">>
S_H1 == <<"#", " ">>
S_PageHeader == <<"#", "#", " ", "P", "a", "g", "e", " ">>
S_MetaHeader == <<"#", "#", " ", "D", "o", "c", "u", "m", "e", "n", "t", " ", "M", "e", "t", "a", "d", "a", "t", "a">>
S_Author == <<"*", "*", "A", "u", "t", "h", "o", "r", ":", "*", "*", " ">>
S_CreationDate == <<"*", "*", "C", "r", "e", "a", "t", "i", "o", "n", " ", "D", "a", "t", "e", ":", "*", "*", " ">>
S_PageCount == <<"*", "*", "P", "a", "g", "e", " ", "C", "o", "u", "n", "t", ":", "*", "*", " ">>

\* json.Unmarshal into OCRResponse
Unmarshal(b) == [Pages |-> b.pages, Metadata |-> b.meta]

DocumentTitle(meta, fromFilename, jsonFile) ==
    IF meta.Title # <<>> THEN meta.Title
    ELSE IF fromFilename THEN TrimSuffix(Base(jsonFile), Ext(Base(jsonFile)))
    ELSE S_Document

MetadataBlock(meta) ==
    IF meta.Author # <<>> \/ meta.CreationDate # <<>>
    THEN S_MetaHeader \o NL2
         \o (IF meta.Author # <<>> THEN S_Author \o meta.Author \o NL2 ELSE <<>>)
         \o (IF meta.CreationDate # <<>> THEN S_CreationDate \o meta.CreationDate \o NL2 ELSE <<>>)
         \o (IF meta.PageCount > 0 THEN S_PageCount \o Itoa(meta.PageCount) \o NL2 ELSE <<>>)
    ELSE <<>>

\* What the single file starts with, before the pages.
DocumentHead(meta, fromFilename, jsonFile) ==
    S_H1 \o DocumentTitle(meta, fromFilename, jsonFile) \o NL2 \o MetadataBlock(meta)

PageHeader(page) == S_PageHeader \o Itoa(page.Index + 1) \o NL2

\* The page content as written: image references replaced under --images.
PageContents(page, images) ==
    IF images THEN ReplacedContents(images, page.Markdown, page.Images)
    ELSE {page.Markdown}

\* The separator after page i of n.
SeparatorAfterEveryPage(i, n, breaks) == IF breaks THEN PageBreak ELSE <<>>
PageSeparator(i, n, breaks) == IF breaks /\ i < n THEN PageBreak ELSE <<>>

\* The name of the file of the page at position i.
PageFileNameByPosition(page, i) == Itoa(i - 1) \o S_md
PageFileName(page, i) == Itoa(page.Index) \o S_md

SingleFileName(file) == IF file # <<>> THEN file ELSE S_document_md

\* os.WriteFile
WriteFile(files, path, content) ==
    [p \in DOMAIN files \cup {path} |-> IF p = path THEN content ELSE files[p]]

JsonFile == IF cmd = "convert" THEN arg ELSE jsonOutputPath

AfterConvRead(readOK, parseOK, mkdirOK, single, npages) ==
    IF ~readOK THEN Exit(1)
    ELSE IF ~parseOK THEN Exit(1)
    ELSE IF ~mkdirOK THEN Exit(1)
    ELSE IF single THEN Go("single")
    ELSE IF npages = 0 THEN Go("convdone")
    ELSE Go("multi")

\* convertJSONToMarkdown up to its loops: read, parse, make the directory
ConvRead ==
    /\ pc = "conv"
    /\ \E mkdirOK \in BOOLEAN :
         LET readOK == jsonOnDisk.kind # "absent"
             parseOK == UnmarshalOK(jsonOnDisk)
             resp == IF readOK /\ parseOK THEN Unmarshal(jsonOnDisk) ELSE NoResponse
             c == AfterConvRead(readOK, parseOK, mkdirOK, singleFile, Len(resp.Pages))
         IN /\ Control(c)
            /\ Failed("convread", ~readOK \/ ~parseOK \/ ~mkdirOK)
            /\ ocrResponse' = IF c.code = -1 THEN resp ELSE ocrResponse
            /\ pageIdx' = IF c.code = -1 THEN 1 ELSE pageIdx
            /\ combined' = IF c.pc = "single"
                           THEN DocumentHead(resp.Metadata, titleFromFilename, JsonFile)
                           ELSE combined
    /\ UNCHANGED <<invocationVars, callVars, netVars, resultVars, fileVars, mdFiles,
                   nWrites, replaceVars>>

\* One iteration of the single-file loop
SinglePage ==
    /\ pc = "single" /\ pageIdx <= Len(ocrResponse.Pages)
    /\ LET page == ocrResponse.Pages[pageIdx]
       IN \E content \in PageContents(page, includeImages) :
            combined' = combined \o PageHeader(page) \o content \o NL2
                        \o PageSeparator(pageIdx, Len(ocrResponse.Pages), includePageBreaks)
    /\ pageIdx' = pageIdx + 1
    /\ UNCHANGED <<invocationVars, controlVars, callVars, netVars, resultVars, fileVars,
                   ocrResponse, mdFiles, nWrites, replaceVars>>

\* The single file is written
SingleWrite ==
    /\ pc = "single" /\ pageIdx > Len(ocrResponse.Pages)
    /\ \E mkdirOK, writeOK \in BOOLEAN :
         LET dirOK == markdownFile = <<>> \/ Dir(markdownFile) = <<".">> \/ mkdirOK
             path == Join(markdownDir, SingleFileName(markdownFile))
             ok == dirOK /\ writeOK
         IN /\ Control(IF ok THEN Go("convdone") ELSE Exit(1))
            /\ Failed("write", ~ok)
            /\ mdFiles' = IF ok THEN WriteFile(mdFiles, path, combined) ELSE mdFiles
            /\ nWrites' = IF ok THEN nWrites + 1 ELSE nWrites
    /\ UNCHANGED <<invocationVars, callVars, netVars, resultVars, fileVars, ocrResponse,
                   pageIdx, combined, replaceVars>>

\* One iteration of the file-per-page loop
MultiPage ==
    /\ pc = "multi" /\ pageIdx <= Len(ocrResponse.Pages)
    /\ LET page == ocrResponse.Pages[pageIdx]
           path == Join(markdownDir, PageFileName(page, pageIdx))
       IN \E content \in PageContents(page, includeImages), writeOK \in BOOLEAN :
            /\ Control(IF ~writeOK THEN Exit(1)
                       ELSE IF pageIdx = Len(ocrResponse.Pages) THEN Go("convdone")
                       ELSE Go("multi"))
            /\ Failed("write", ~writeOK)
            /\ mdFiles' = IF writeOK THEN WriteFile(mdFiles, path, content) ELSE mdFiles
            /\ nWrites' = IF writeOK THEN nWrites + 1 ELSE nWrites
            /\ pageIdx' = IF writeOK THEN pageIdx + 1 ELSE pageIdx
    /\ UNCHANGED <<invocationVars, callVars, netVars, resultVars, fileVars, ocrResponse,
                   combined, replaceVars>>

\* convertJSONToMarkdown returns, and the command with it; the markdown
\* command's deferred os.Remove takes the temporary file away.
ConvReturn ==
    /\ pc = "convdone"
    /\ Control(Exit(0))
    /\ tmpExists' = FALSE
    /\ jsonOnDisk' = IF tmpExists THEN AbsentBody ELSE jsonOnDisk
    /\ UNCHANGED <<invocationVars, failure, callVars, netVars, resultVars, jsonOutputPath,
                   stdout, convVars, replaceVars>>

Next ==
    \/ PreRunMarkdown \/ PreRunConvert \/ RunProcess
    \/ CreateTemp \/ Stat \/ GetKey
    \/ UploadBegin \/ UploadAttempt \/ GetFileURL \/ OCRBegin \/ OCRAttempt
    \/ SaveJSON \/ HandleOutput
    \/ ConvRead \/ SinglePage \/ SingleWrite \/ MultiPage \/ ConvReturn

Spec == Init /\ [][Next]_vars

\* ------------------------------------- replaceImageReferences on its own

Seg_a == <<"!", "[", "a", "]", "(", "a", ")">>
Seg_b == <<"!", "[", "b", "]", "(", "b", ")">>
Seg_x == <<"x">>
Seg_dollar == <<"!", "[", "a", "$", "b", "]", "(", "a", "$", "b", ")">>
Seg_dot == <<"!", "[", "a", ".", "b", "]", "(", "a", ".", "b", ")">>
Seg_axb == <<"!", "[", "a", "x", "b", "]", "(", "a", "x", "b", ")">>
Segments == {Seg_a, Seg_b, Seg_x, Seg_dollar, Seg_dot, Seg_axb}

RECURSIVE Concat(_)
Concat(ss) == IF ss = <<>> THEN <<>> ELSE Head(ss) \o Concat(Tail(ss))

Contents == { Concat(ss) : ss \in UNION { [1 .. n -> Segments] : n \in 0 .. MaxSegs } }

ImagePool ==
    { Image(<<"a">>, <<"Q">>), Image(<<"a">>, <<>>), Image(<<"b">>, <<"d", "a", "t", "a", ":", "Z">>),
      Image(<<"a", "$", "b">>, <<"Q">>), Image(<<"a", ".", "b">>, <<"R">>) }

ImageSeqs == UNION { [1 .. n -> ImagePool] : n \in 0 .. MaxImages }

InitReplace ==
    /\ cmd = "none" /\ pc = "replace"
    /\ arg = <<>> /\ fileExists = FALSE /\ fileSize = 0
    /\ apiKeyFlag = <<>> /\ envKey = <<>> /\ jsonOnDisk = AbsentBody
    /\ jsonOutputFile = <<>> /\ includeImageBase64 = FALSE
    /\ markdownDir = S_markdown_output /\ markdownFile = <<>>
    /\ includeImages \in BOOLEAN /\ includePageBreaks = TRUE
    /\ titleFromFilename = TRUE /\ singleFile = FALSE
    /\ exitCode = -1 /\ failure = "none"
    /\ apiKey = <<>> /\ attempt = 0 /\ lastErr = NoErr /\ lastOutcome = NoOutcome
    /\ slept = 0 /\ lastDelay = 0 /\ retErr = NoRet
    /\ reqs = [upload |-> 0, geturl |-> 0, ocr |-> 0] /\ authKeys = {} /\ ocrReq = NoReq
    /\ fileID = <<>> /\ fileURL = <<>> /\ respData = AbsentBody
    /\ jsonOutputPath = <<>> /\ tmpExists = FALSE /\ stdout = AbsentBody
    /\ ocrResponse = NoResponse /\ pageIdx = 0 /\ combined = <<>>
    /\ mdFiles = NoFiles /\ nWrites = 0
    /\ rContent \in Contents /\ rImages \in ImageSeqs /\ rOut = <<>>

\* replaceImageReferences(rContent, rImages)
ReplaceCall ==
    /\ pc = "replace"
    /\ \E order \in MapOrders(ImageMap(rImages)) :
         rOut' = replaceImageReferences(includeImages, rContent, rImages, order)
    /\ pc' = "replaced"
    /\ UNCHANGED <<invocationVars, exitCode, failure, callVars, netVars, resultVars,
                   fileVars, convVars, rContent, rImages>>

SpecReplace == InitReplace /\ [][ReplaceCall]_vars

\* --------------------------------------- UploadFile and ProcessOCR on their own

\* The document types a caller of ProcessOCR may pass.
S_file == <<"f", "i", "l", "e">>
DocTypes == {S_document_url, S_image_url, S_file, <<>>}

InitClient ==
    /\ cmd = "client" /\ pc \in {"upload", "ocr"}
    /\ apiKeyFlag = FlagKey /\ envKey = <<>> /\ apiKey = FlagKey
    /\ \/ /\ pc = "upload" /\ arg = LocalArg
          /\ \/ fileExists = FALSE /\ fileSize = 0
             \/ fileExists = TRUE /\ fileSize \in Sizes
          /\ ocrReq = NoReq /\ includeImageBase64 = FALSE
       \/ /\ pc = "ocr" /\ arg = URLDocArg /\ fileExists = FALSE /\ fileSize = 0
          /\ includeImageBase64 \in BOOLEAN
          /\ \E t \in DocTypes :
               ocrReq = [docType |-> t, source |-> arg, images |-> includeImageBase64]
    /\ jsonOnDisk = AbsentBody /\ jsonOutputFile = <<>>
    /\ markdownDir = S_markdown_output /\ markdownFile = <<>>
    /\ includeImages = FALSE /\ includePageBreaks = TRUE
    /\ titleFromFilename = TRUE /\ singleFile = FALSE
    /\ exitCode = -1 /\ failure = "none"
    /\ attempt = 0 /\ lastErr = NoErr /\ lastOutcome = NoOutcome
    /\ slept = 0 /\ lastDelay = 0 /\ retErr = NoRet
    /\ reqs = [upload |-> 0, geturl |-> 0, ocr |-> 0] /\ authKeys = {}
    /\ fileID = <<>> /\ fileURL = <<>> /\ respData = AbsentBody
    /\ jsonOutputPath = <<>> /\ tmpExists = FALSE /\ stdout = AbsentBody
    /\ ocrResponse = NoResponse /\ pageIdx = 0 /\ combined = <<>>
    /\ mdFiles = NoFiles /\ nWrites = 0
    /\ rContent = <<>> /\ rImages = <<>> /\ rOut = <<>>

\* Where the call's caller goes on.
ClientControl(ret) == IF ret = NoRet THEN pc' = pc ELSE pc' = "returned"

\* UploadFile(arg) up to its loop
ClientUploadBegin ==
    /\ cmd = "client" /\ pc = "upload" /\ attempt = 0
    /\ LET ret == IF ~fileExists THEN Ret("error", FALSE, Err("stat", 0, 0))
                  ELSE IF FileTooLarge(fileSize) THEN Ret("error", FALSE, Err("toolarge", 0, 0))
                  ELSE NoRet
       IN /\ retErr' = ret
          /\ attempt' = IF ret = NoRet THEN 1 ELSE 0
          /\ ClientControl(ret)
    /\ UNCHANGED <<invocationVars, exitCode, failure, apiKey, lastErr, lastOutcome, slept,
                   lastDelay, netVars, resultVars, fileVars, convVars, replaceVars>>

\* One iteration of UploadFile's loop
ClientUploadAttempt ==
    /\ cmd = "client" /\ pc = "upload" /\ attempt >= 1
    /\ \E out \in Outcomes(UploadBodies) :
         LET it == UploadIteration(out, attempt)
             last == IF it.next = "ok" THEN lastErr ELSE it.err
             ret == Returned(it, attempt, UploadMaxRetries, last)
         IN /\ reqs' = [reqs EXCEPT !.upload = @ + 1]
            /\ authKeys' = authKeys \cup {apiKey}
            /\ lastOutcome' = [op |-> "upload", attempt |-> attempt, out |-> out]
            /\ lastErr' = last
            /\ slept' = slept + it.delay
            /\ lastDelay' = it.delay
            /\ retErr' = ret
            /\ fileID' = it.val
            /\ attempt' = IF ret = NoRet THEN attempt + 1 ELSE 0
            /\ ClientControl(ret)
    /\ UNCHANGED <<invocationVars, exitCode, failure, apiKey, ocrReq, fileURL, respData,
                   fileVars, convVars, replaceVars>>

\* ProcessOCR(docType, docSource, includeImageBase64) up to its loop
ClientOCRBegin ==
    /\ cmd = "client" /\ pc = "ocr" /\ attempt = 0
    /\ LET ret == IF DocTypeSupported(ocrReq.docType) THEN NoRet
                  ELSE Ret("error", FALSE, Err("doctype", 0, 0))
       IN /\ retErr' = ret
          /\ attempt' = IF ret = NoRet THEN 1 ELSE 0
          /\ ClientControl(ret)
    /\ UNCHANGED <<invocationVars, exitCode, failure, apiKey, lastErr, lastOutcome, slept,
                   lastDelay, netVars, resultVars, fileVars, convVars, replaceVars>>

\* One iteration of ProcessOCR's loop
ClientOCRAttempt ==
    /\ cmd = "client" /\ pc = "ocr" /\ attempt >= 1
    /\ \E out \in Outcomes(OCRBodies) :
         LET it == OCRIteration(out, attempt)
             ret == Returned(it, attempt, OCRMaxRetries, it.err)
         IN /\ reqs' = [reqs EXCEPT !.ocr = @ + 1]
            /\ authKeys' = authKeys \cup {apiKey}
            /\ lastOutcome' = [op |-> "ocr", attempt |-> attempt, out |-> out]
            /\ lastErr' = it.err
            /\ slept' = slept + it.delay
            /\ lastDelay' = it.delay
            /\ retErr' = ret
            /\ respData' = IF it.next = "ok" THEN it.val ELSE respData
            /\ attempt' = IF ret = NoRet THEN attempt + 1 ELSE 0
            /\ ClientControl(ret)
    /\ UNCHANGED <<invocationVars, exitCode, failure, apiKey, ocrReq, fileID, fileURL,
                   fileVars, convVars, replaceVars>>

NextClient ==
    \/ ClientUploadBegin \/ ClientUploadAttempt
    \/ ClientOCRBegin \/ ClientOCRAttempt

\* Every request ends within the client's 120 s timeout and the loops only
\* sleep for a fixed time, so a call that can take a step takes it.
SpecClient == InitClient /\ [][NextClient]_vars /\ WF_vars(NextClient)

\* ------------------------------------------------------------- the claims

Placeholder(id) == <<"!", "[">> \o id \o <<"]", "(">> \o id \o <<")">>
LiteralAt(s, lit, i) == i + Len(lit) - 1 <= Len(s) /\ SubSeq(s, i, i + Len(lit) - 1) = lit

\* The texts the claim allows from position i on: a placeholder of an image
\* with a payload becomes ![id](data URI), one of an image without a payload
\* may stay, every other character stays.
RECURSIVE ClaimedFrom(_, _, _)
ClaimedFrom(s, images, i) ==
    IF i > Len(s) THEN {<<>>}
    ELSE LET hits == { k \in DOMAIN images : LiteralAt(s, Placeholder(images[k].ID), i) }
             bare == hits = {} \/ \E k \in hits : images[k].ImageBase64 = <<>>
         IN (IF bare THEN { <<s[i]>> \o t : t \in ClaimedFrom(s, images, i + 1) } ELSE {})
            \cup UNION { { <<"!", "[">> \o images[k].ID \o <<"]", "(">>
                             \o ImageData(images[k].ImageBase64) \o <<")">> \o t :
                             t \in ClaimedFrom(s, images, i + Len(Placeholder(images[k].ID))) } :
                         k \in hits }

\* C7: with inlining requested, replaceImageReferences turns every placeholder
\* ![id](id) of an image of the page into ![id](data URI of the image) and
\* leaves all other text as it is; without it, the content comes back unchanged.
C7_ReplacesKnownPlaceholders ==
    pc = "replaced" =>
        rOut \in (IF includeImages THEN ClaimedFrom(rContent, rImages, 1) ELSE {rContent})

TotalReqs == reqs.upload + reqs.geturl + reqs.ocr
ReqsOf(op) == IF op = "upload" THEN reqs.upload ELSE IF op = "geturl" THEN reqs.geturl ELSE reqs.ocr
NetCommand == cmd \in {"process", "markdown"}

\* C1: a local file larger than MaxFileSize is rejected with an error and no
\* request of any kind is ever sent for it; a file of exactly MaxFileSize
\* bytes is not rejected by the size check.
C1_OversizedRejectedBeforeNetwork ==
    NetCommand /\ ~IsURL(arg) /\ fileExists =>
        /\ fileSize > 52 * 1024 * 1024 =>
              /\ TotalReqs = 0
              /\ pc = "exit" => exitCode = 1
              /\ pc = "exit" /\ failure = "upload" => retErr.err.kind = "toolarge"
        /\ fileSize <= 52 * 1024 * 1024 => retErr.err.kind # "toolarge"

C1_Witness ==
    /\ NetCommand /\ ~IsURL(arg) /\ fileExists /\ fileSize > 52 * 1024 * 1024
    /\ pc = "exit" /\ retErr.err.kind = "toolarge" /\ TotalReqs = 0

\* The outcomes the spec lists as retried: a server error, a rate-limiting
\* response, an empty body, malformed JSON.
ListedRetryable(out) ==
    /\ ~out.err
    /\ \/ out.status >= 500
       \/ out.status = 429
       \/ out.status = 200 /\ out.body.kind \in {"empty", "invalid"}

\* C2 as stated: each of the three operations (upload, signed URL, OCR), after
\* a listed outcome on an attempt that is not its last, goes on to another
\* request instead of returning.  An operation that retries at all has a
\* second attempt, so its first attempt is not its last.
C2_EveryOperationRetries ==
    LET op == lastOutcome.op
        att == lastOutcome.attempt
        notLast == att = 1 \/ (op = "upload" /\ att < 3) \/ (op = "ocr" /\ att < 5)
    IN op \in {"upload", "geturl", "ocr"} /\ ListedRetryable(lastOutcome.out) /\ notLast =>
          pc = op /\ exitCode = -1

\* C2 as amended: UploadFile and ProcessOCR go on to the next attempt after a
\* listed outcome on an attempt that is not the last (3 and 5 attempts);
\* GetFileURL makes one request and returns the error of any such outcome.
C2_UploadAndOCRRetry ==
    LET op == lastOutcome.op
        att == lastOutcome.attempt
    IN /\ op = "upload" /\ ListedRetryable(lastOutcome.out) /\ att < 3 =>
             pc = "upload" /\ attempt = att + 1 /\ retErr = NoRet /\ exitCode = -1
       /\ op = "ocr" /\ ListedRetryable(lastOutcome.out) /\ att < 5 =>
             pc = "ocr" /\ attempt = att + 1 /\ retErr = NoRet /\ exitCode = -1
       /\ op = "geturl" /\ ListedRetryable(lastOutcome.out) =>
             /\ pc = "exit" /\ exitCode = 1 /\ reqs.geturl = 1
             /\ retErr.state = "error" /\ ~retErr.wrapped

C2_Witness ==
    /\ lastOutcome.op = "ocr" /\ lastOutcome.attempt = 4
    /\ lastOutcome.out.status = 200 /\ lastOutcome.out.body.kind = "invalid"
    /\ pc = "ocr" /\ attempt = 5 /\ reqs.ocr = 4

ClientError(out) == ~out.err /\ out.status # 200 /\ out.status < 500 /\ out.status # 429

\* C3: in UploadFile and ProcessOCR a status that is not 200, below 500 and
\* not 429 ends the call at that attempt: the error returned carries the
\* status, no further request follows and the attempt incurs no wait.
C3_ClientErrorsFailImmediately ==
    LET op == lastOutcome.op
        att == lastOutcome.attempt
    IN op \in {"upload", "ocr"} /\ ClientError(lastOutcome.out) =>
          /\ pc = "exit" /\ exitCode = 1
          /\ retErr = Ret("error", FALSE, Err("status", lastOutcome.out.status, att))
          /\ ReqsOf(op) = att
          /\ lastDelay = 0

C3_Witness ==
    /\ lastOutcome.op = "ocr" /\ lastOutcome.attempt = 3 /\ lastOutcome.out.status = 404
    /\ pc = "exit" /\ reqs.ocr = 3

\* The error an attempt with this outcome produces.
ErrorOf(op, out, att) ==
    IF out.err THEN Err("request", 0, att)
    ELSE IF out.status # 200 THEN Err("status", out.status, att)
    ELSE IF out.body.kind = "empty" THEN Err("empty", 0, att)
    ELSE IF op = "ocr" THEN Err("invalid", 0, att)
    ELSE IF out.body.kind # "object" THEN Err("parse", 0, att)
    ELSE Err("noid", 0, att)

\* C4: when UploadFile (3 attempts) or ProcessOCR (5 attempts) runs out of
\* attempts, the error it returns wraps the error of the final attempt: never
\* nil, never an earlier attempt's.
C4_ExhaustionWrapsLastError ==
    LET op == lastOutcome.op
        max == IF op = "upload" THEN 3 ELSE 5
    IN /\ retErr.wrapped =>
             /\ op \in {"upload", "ocr"}
             /\ lastOutcome.attempt = max /\ ReqsOf(op) = max
             /\ retErr.err # NoErr
             /\ retErr.err = ErrorOf(op, lastOutcome.out, max)
             /\ pc = "exit" /\ exitCode = 1
       /\ op \in {"upload", "ocr"} /\ lastOutcome.attempt = max /\ retErr.state = "error"
          /\ ~ClientError(lastOutcome.out) => retErr.wrapped

C4_Witness ==
    /\ retErr.wrapped /\ lastOutcome.op = "ocr" /\ retErr.err.kind = "empty"
    /\ retErr.err.attempt = 5

\* A page as the single file shows it: header, content, blank line.
PageBlocks(page) ==
    { <<"#", "#", " ", "P", "a", "g", "e", " ">> \o Itoa(page.Index + 1) \o <<"\n", "\n">>
        \o c \o <<"\n", "\n">> : c \in PageContents(page, includeImages) }

\* The pages one after the other, the delimiter between consecutive ones.
RECURSIVE JoinedPages(_, _)
JoinedPages(pages, delim) ==
    IF pages = <<>> THEN {<<>>}
    ELSE IF Len(pages) = 1 THEN PageBlocks(pages[1])
    ELSE { b \o delim \o rest : b \in PageBlocks(pages[1]),
                                rest \in JoinedPages(Tail(pages), delim) }

ConfiguredDelimiter ==
    IF includePageBreaks THEN <<"\n", "\n", "-", "-", "-", "\n", "\n">> ELSE <<>>

\* The arrangements of the pages in ascending index order.
ByIndex(pages) ==
    { [i \in DOMAIN pages |-> pages[f[i]]] :
        f \in { g \in [DOMAIN pages -> DOMAIN pages] :
                  /\ \A i, j \in DOMAIN pages : i # j => g[i] # g[j]
                  /\ \A i, j \in DOMAIN pages : i < j => pages[g[i]].Index <= pages[g[j]].Index } }

SingleFileDone ==
    cmd \in {"convert", "markdown"} /\ singleFile /\ pc = "exit" /\ exitCode = 0

\* C5 as stated: single-file conversion writes one document that holds every
\* page's Markdown in ascending order of the pages' index, whatever the order
\* of the pages array, the configured delimiter between consecutive pages.
C5_SingleFileInIndexOrder ==
    SingleFileDone =>
        /\ Cardinality(DOMAIN mdFiles) = 1 /\ nWrites = 1
        /\ \A p \in DOMAIN mdFiles :
              \E q \in ByIndex(ocrResponse.Pages) :
                 \E body \in JoinedPages(q, ConfiguredDelimiter) : HasSuffix(mdFiles[p], body)

\* C5 as amended: single-file conversion writes one document that holds every
\* page's Markdown (image references inlined under --images) in the order of
\* the payload's pages array, each under its "## Page <index+1>" header, the
\* configured delimiter between consecutive pages and none after the last.
C5_SingleFileInArrayOrder ==
    SingleFileDone =>
        /\ Cardinality(DOMAIN mdFiles) = 1 /\ nWrites = 1
        /\ \A p \in DOMAIN mdFiles :
              \E body \in JoinedPages(ocrResponse.Pages, ConfiguredDelimiter) :
                 /\ HasSuffix(mdFiles[p], body)
                 /\ Len(mdFiles[p]) > Len(body)

C5_Witness ==
    /\ SingleFileDone /\ includePageBreaks
    /\ Len(ocrResponse.Pages) = 2
    /\ ocrResponse.Pages[1].Index > ocrResponse.Pages[2].Index
    /\ nWrites = 1

MultiFileDone ==
    cmd \in {"convert", "markdown"} /\ ~singleFile /\ pc = "exit" /\ exitCode = 0

IndexFile(index) == markdownDir \o <<"/">> \o Itoa(index) \o <<".", "m", "d">>

\* C6 as stated: multi-file conversion leaves as many files as the payload
\* has pages, <index>.md each, holding exactly the Markdown of the page with
\* that index, also when two pages carry the same index.
C6_OneFilePerPage ==
    MultiFileDone =>
        /\ Cardinality(DOMAIN mdFiles) = Len(ocrResponse.Pages)
        /\ \A i \in DOMAIN ocrResponse.Pages :
              LET page == ocrResponse.Pages[i]
              IN /\ IndexFile(page.Index) \in DOMAIN mdFiles
                 /\ mdFiles[IndexFile(page.Index)] = page.Markdown

\* C6 as amended: multi-file conversion writes once per page, to <index>.md in
\* the output directory; it leaves one file per distinct index, holding the
\* Markdown (image references inlined under --images) of the last page of the
\* payload with that index.  The files are as many as the pages exactly when
\* no two pages carry the same index.
C6_OneFilePerIndex ==
    MultiFileDone =>
        LET pages == ocrResponse.Pages
            last(index) == pages[CHOOSE i \in DOMAIN pages :
                                   /\ pages[i].Index = index
                                   /\ \A j \in DOMAIN pages : pages[j].Index = index => j <= i]
        IN /\ nWrites = Len(pages)
           /\ DOMAIN mdFiles = { IndexFile(pages[i].Index) : i \in DOMAIN pages }
           /\ \A i \in DOMAIN pages :
                 mdFiles[IndexFile(pages[i].Index)]
                    \in PageContents(last(pages[i].Index), includeImages)
           /\ Cardinality(DOMAIN mdFiles) = Cardinality({ pages[i].Index : i \in DOMAIN pages })

C6_Witness ==
    /\ MultiFileDone
    /\ Len(ocrResponse.Pages) = 2
    /\ ocrResponse.Pages[1].Index = ocrResponse.Pages[2].Index
    /\ ocrResponse.Pages[1] # ocrResponse.Pages[2]
    /\ Cardinality(DOMAIN mdFiles) = 1

ConversionStarted ==
    pc \in {"single", "multi", "convdone"} \/ nWrites > 0 \/ ocrResponse # NoResponse
    \/ failure \in {"convread", "write"}

\* C8: the steps come one after the other, each only after the one before
\* succeeded: the signed-URL request after an upload returned a file ID, the
\* OCR request of a local file after the signed URL was obtained, the JSON
\* written after the OCR request succeeded, the conversion after the JSON was
\* written; a URL is never uploaded nor asked a signed URL for, and its OCR
\* request names the URL itself.
C8_SequentialAndGated ==
    NetCommand =>
        /\ reqs.geturl > 0 => reqs.upload > 0 /\ fileID \in FileIDs
        /\ ~IsURL(arg) /\ reqs.ocr > 0 =>
              reqs.geturl = 1 /\ fileURL \in SignedURLs /\ ocrReq.source = fileURL
        /\ stdout # AbsentBody \/ jsonOnDisk.kind \notin {"absent", "empty"} =>
              reqs.ocr > 0 /\ respData.kind \in {"array", "object"}
        /\ ConversionStarted =>
              /\ cmd = "markdown" /\ respData.kind \in {"array", "object"}
              /\ pc # "exit" => jsonOnDisk = respData
        /\ IsURL(arg) =>
              /\ reqs.upload = 0 /\ reqs.geturl = 0 /\ fileID = <<>> /\ fileURL = <<>>
              /\ reqs.ocr > 0 => ocrReq.source = arg

C8_Witness ==
    /\ cmd = "markdown" /\ ~IsURL(arg) /\ pc = "exit" /\ exitCode = 0 /\ nWrites > 0
    /\ reqs.upload > 1 /\ reqs.ocr > 1

\* C9: every failure ends the process with exit code 1, at once; exit code 0
\* is reached only when every step of the command succeeded.
C9_FailuresExitNonZero ==
    /\ exitCode \in {-1, 0, 1}
    /\ pc = "exit" <=> exitCode # -1
    /\ failure # "none" => pc = "exit" /\ exitCode = 1
    /\ exitCode = 0 =>
          /\ failure = "none"
          /\ cmd = "process" =>
                /\ reqs.ocr > 0 /\ JSONValid(respData)
                /\ IF jsonOutputFile # <<>> THEN jsonOnDisk.kind = respData.kind
                   ELSE stdout.kind = respData.kind
          /\ cmd = "markdown" => reqs.ocr > 0 /\ JSONValid(respData)
          /\ cmd \in {"markdown", "convert"} =>
                nWrites = IF singleFile THEN 1 ELSE Len(ocrResponse.Pages)

C9_Witness ==
    /\ pc = "exit" /\ exitCode = 1 /\ failure = "savejson" /\ reqs.ocr = 5

ExpectedKey == IF apiKeyFlag # <<>> THEN apiKeyFlag ELSE envKey

\* C10: the requests carry the --api-key value when it is not empty and the
\* MISTRAL_API_KEY value otherwise; with both empty, process and markdown end
\* with a non-zero exit code and no request is sent.
C10_APIKeyFlagThenEnv ==
    NetCommand =>
        /\ authKeys \subseteq {ExpectedKey}
        /\ apiKey \in {<<>>, ExpectedKey}
        /\ TotalReqs > 0 => authKeys = {ExpectedKey} /\ ExpectedKey # <<>>
        /\ apiKeyFlag = <<>> /\ envKey = <<>> =>
              /\ TotalReqs = 0
              /\ pc = "exit" => exitCode = 1

C10_Witness ==
    /\ NetCommand /\ apiKeyFlag # <<>> /\ envKey # <<>>
    /\ authKeys = {apiKeyFlag} /\ reqs.ocr > 0

\* The title the claim expects: from the metadata, else from the name of the
\* command's input, else the literal "Document".
InputTitle ==
    IF ocrResponse.Metadata.Title # <<>> THEN ocrResponse.Metadata.Title
    ELSE IF titleFromFilename THEN TrimSuffix(Base(arg), Ext(Base(arg)))
    ELSE <<"D", "o", "c", "u", "m", "e", "n", "t">>

\* C11: in single-file mode the document opens with "# <title>", the title
\* being the metadata title when it is not empty, otherwise the base name
\* without extension of the command's input (the JSON file for convert, the
\* file or URL for markdown) when title-from-filename is on, otherwise
\* "Document".
C11_TitleFromInput ==
    cmd \in {"convert", "markdown"} /\ pc = "single" =>
        HasPrefix(combined, <<"#", " ">> \o InputTitle \o <<"\n", "\n">>)

\* C12: with --output-file given, whatever --single-file says, a successful
\* convert or markdown run is in single-file mode and leaves exactly one
\* Markdown file, at the path --output-file names, and no <index>.md.
C12_OutputFileNamesPath ==
    cmd \in {"convert", "markdown"} /\ markdownFile # <<>> /\ pc = "exit" /\ exitCode = 0 =>
        /\ singleFile /\ nWrites = 1
        /\ DOMAIN mdFiles = {markdownFile}

\* C13: one call of UploadFile sends at most 3 upload requests, one call of
\* ProcessOCR at most 5 OCR requests, whatever the server answers; every call
\* returns in the end, with a value or with an error; and ProcessOCR called
\* with a document type other than "document_url" and "image_url" returns an
\* error without sending a request.
C13_BoundedRetriesTerminate ==
    LET supported == {<<"d", "o", "c", "u", "m", "e", "n", "t", "_", "u", "r", "l">>,
                      <<"i", "m", "a", "g", "e", "_", "u", "r", "l">>}
        ocrCalled == ocrReq.source # <<>>
    IN /\ [](/\ reqs.upload <= 3 /\ reqs.ocr <= 5
             /\ pc = "returned" =>
                   /\ retErr.state \in {"ok", "error"}
                   /\ retErr.state = "error" <=> retErr.err # NoErr
             /\ ocrCalled /\ ocrReq.docType \notin supported =>
                   /\ reqs.ocr = 0
                   /\ pc = "returned" => retErr.state = "error" /\ retErr.err.kind = "doctype")
       /\ <>(pc = "returned")

C13_Witness ==
    /\ cmd = "client" /\ pc = "returned" /\ reqs.ocr = 5 /\ retErr.wrapped
    /\ lastOutcome.out.status = 429

\* A response ProcessOCR accepts: status 200, a body that is not empty and
\* is syntactically valid JSON.
GoodOCRResponse(out) ==
    ~out.err /\ out.status = 200 /\ out.body.kind \in {"array", "object"}

\* C14: ProcessOCR returns without error only with the body of the first
\* attempt whose response had status 200 and a non-empty, valid JSON body, so
\* a nil error never comes with an empty body and the markdown command's
\* empty-response branch is never taken; UploadFile returns without error
\* only with a non-empty file ID taken from a 200 response.
C14_SuccessMeansValidBody ==
    /\ [](/\ lastOutcome.op = "ocr" /\ retErr.state = "ok" =>
                /\ GoodOCRResponse(lastOutcome.out)
                /\ respData = lastOutcome.out.body
                /\ reqs.ocr = lastOutcome.attempt
          /\ pc \in {"savejson", "output"} =>
                /\ lastOutcome.op = "ocr" /\ retErr.state = "ok"
                /\ respData.kind \notin {"absent", "empty"}
          /\ failure = "savejson" => respData.kind \notin {"absent", "empty"}
          /\ lastOutcome.op = "upload" /\ retErr.state = "ok" =>
                /\ ~lastOutcome.out.err /\ lastOutcome.out.status = 200
                /\ fileID # <<>> /\ fileID = lastOutcome.out.body.id
          /\ pc = "geturl" => lastOutcome.op = "upload" /\ retErr.state = "ok")
    /\ [][/\ reqs'.ocr = reqs.ocr + 1 /\ GoodOCRResponse(lastOutcome'.out) =>
                retErr'.state = "ok" /\ respData' = lastOutcome'.out.body /\ pc' # pc
          /\ reqs'.ocr = reqs.ocr + 1 /\ ~GoodOCRResponse(lastOutcome'.out) =>
                retErr'.state # "ok" /\ respData' = respData]_vars

C14_Witness ==
    /\ cmd = "markdown" /\ pc = "savejson"
    /\ retErr.state = "ok" /\ lastOutcome.op = "ocr" /\ lastOutcome.attempt = 3
    /\ respData.pages # <<>>

\* C15: the temporary JSON file of a markdown run without --json-file is gone
\* when the process exits, on every path: success, missing API key, missing
\* input file, upload, signed-URL or OCR failure, JSON write failure,
\* conversion failure.
C15_TempFileRemoved ==
    pc = "exit" => ~tmpExists

\* The wait, in seconds, the claim gives for an attempt's outcome.
ClaimedDelay(op, out, att) ==
    LET retryStatus == out.status >= 500 \/ out.status = 429
    IN IF out.err THEN (IF op = "upload" THEN 3 ELSE 10)
       ELSE IF out.status # 200
       THEN (IF retryStatus THEN (IF op = "upload" THEN 3 ELSE 10) ELSE 0)
       ELSE IF op = "upload"
       THEN (IF out.body.kind # "object" \/ out.body.id = <<>> THEN 3 ELSE 0)
       ELSE IF out.body.kind = "empty" THEN 10 * att
       ELSE IF out.body.kind \notin {"array", "object"} THEN 10
       ELSE 0

\* C16: UploadFile waits 3 s after every retryable failure; ProcessOCR waits
\* 10 s after a transport error, a 5xx/429 status or an invalid-JSON body and
\* 10 s times the attempt number after an empty 200 body; the wait comes after
\* every retryable failed attempt, the last one included, so a call that ran
\* out of attempts waited the sum over all of them.
C16_RetryDelays ==
    /\ [](/\ attempt = 1 => slept = 0
          /\ lastOutcome.op \in {"upload", "ocr"} =>
                lastDelay = ClaimedDelay(lastOutcome.op, lastOutcome.out, lastOutcome.attempt)
          /\ retErr.wrapped /\ lastOutcome.op = "upload" => slept = 3 * 3 /\ lastDelay = 3
          /\ retErr.wrapped /\ lastOutcome.op = "ocr" =>
                /\ slept >= 5 * 10 /\ slept <= 10 + 20 + 30 + 40 + 50
                /\ lastDelay \in {10, 50})
    /\ [][reqs'.upload = reqs.upload + 1 \/ reqs'.ocr = reqs.ocr + 1 =>
             /\ lastOutcome'.attempt = attempt
             /\ slept' = slept
                         + ClaimedDelay(lastOutcome'.op, lastOutcome'.out, lastOutcome'.attempt)]_vars

C16_Witness ==
    /\ retErr.wrapped /\ lastOutcome.op = "ocr"
    /\ lastOutcome.out.body.kind = "empty" /\ lastOutcome.out.status = 200
    /\ slept = 150 /\ lastDelay = 50

\* C17: in the markdown command --images sets include_image_base64 in PreRun,
\* before any request, so every OCR request of a run with --images asks for
\* base64 images; without --images the OCR request carries
\* include_image_base64 = false and the pages are written as they came, no
\* placeholder replaced.
C17_ImagesForceBase64 ==
    cmd = "markdown" =>
        /\ pc = "prerun" => reqs.upload + reqs.geturl + reqs.ocr = 0
        /\ pc # "prerun" => includeImageBase64 = includeImages
        /\ reqs.ocr > 0 => ocrReq.images = includeImages
        /\ ~includeImages =>
              /\ ~singleFile =>
                    \A p \in DOMAIN mdFiles :
                       \E i \in DOMAIN ocrResponse.Pages : mdFiles[p] = ocrResponse.Pages[i].Markdown
              /\ pc = "single" /\ pageIdx > 1 =>
                    \E sep \in {<<>>, <<"\n", "\n", "-", "-", "-", "\n", "\n">>} :
                       HasSuffix(combined,
                                 ocrResponse.Pages[pageIdx - 1].Markdown \o <<"\n", "\n">> \o sep)

C17_Witness ==
    /\ cmd = "markdown" /\ includeImages /\ ocrReq.images /\ reqs.ocr = 2
    /\ pc = "exit" /\ exitCode = 0 /\ nWrites > 0
    /\ \E i \in DOMAIN ocrResponse.Pages : ocrResponse.Pages[i].Images # <<>>

====
